---- MODULE Spec2Model ----
(***************************************************************************)
(* A model of polemarch/api/v2/serializers.py: the permissions and owner   *)
(* operations of _WithPermissionsSerializer, the masking of hidden         *)
(* variables on output, the create/update path of the signal-wrapped       *)
(* serializers without variables (Team) and with variables (Group,         *)
(* PeriodicTask) and the execution entry point of OneProjectSerializer.    *)
(*                                                                         *)
(* Exceptions are modelled by the name of the class the code raises:       *)
(*   "PermissionDenied"    rest_framework.exceptions.PermissionDenied      *)
(*   "ValueError"          Python's ValueError                             *)
(*   "ValidationError"     rest_framework.exceptions.ValidationError       *)
(*   "ValidationException" OneGroupSerializer.ValidationException (409)    *)
(*   "DoesNotExist"        the ORM's lookup failure                        *)
(*   "AttributeError"      attribute access on None                        *)
(*   "HookError"           an exception raised by a signal receiver        *)
(*   "NotApplicable"       main_exceptions.NotApplicable                   *)
(*   "DatabaseError"       a row the database refuses                      *)
(***************************************************************************)
EXTENDS Integers, Sequences, FiniteSets

VARIABLES
    acl,        \* the entity's ACL rows: entry -> number of rows holding it
    owner,      \* the entity's owner (a user pk)
    resp,       \* the last permissions/owner request and its outcome
    history,    \* the History rows created by the project's execute
    engine,     \* the history ids handed to the execution engine
    xresp,      \* the last execution request and its outcome
    inst,       \* the stored instance a representation is computed from
    rep,        \* the last representation computed
    ptask,      \* the stored periodic task
    presp,      \* the last periodic task request and its outcome
    group,      \* the stored group
    gresp,      \* the last group request and its outcome
    txn,        \* the transaction of a permissions call that runs in steps
    seen,       \* what a reader on another connection last read
    team,       \* the stored team
    tresp       \* the last team request and its outcome

vars == <<acl, owner, resp, history, engine, xresp, inst, rep,
          ptask, presp, group, gresp, txn, seen, team, tresp>>

aclVars == <<acl, owner, resp>>
execVars == <<history, engine, xresp>>
reprVars == <<inst, rep>>
ptaskVars == <<ptask, presp>>
groupVars == <<group, gresp>>
txnVars == <<txn, seen>>
teamVars == <<team, tresp>>

(***************************************************************************)
(* Bounds and input populations.                                           *)
(***************************************************************************)
\* The longest entry list a permissions request carries.
MaxData == 2

\* The users known to the identity collaborator, and a pk no user has.
Users == {1, 2}
MissingUsers == {0}
\* The teams known to the identity collaborator.
Teams == {1}

\* PermissionsSerializer.member_type choices.
MemberTypes == {"user", "team"}
\* PermissionsSerializer.role choices.
Roles == {"MASTER", "EDITOR", "EXECUTOR"}

\* The request methods routed to the permissions and owner operations.
Methods == {"GET", "POST", "PUT", "DELETE"}

MembersOf(member_type) == IF member_type = "user" THEN Users ELSE Teams

\* One permission entry of a request body, and one stored ACLPermission row.
Entries ==
    {e \in [member : Users \cup Teams, member_type : MemberTypes, role : Roles] :
        e.member \in MembersOf(e.member_type)}

\* The request bodies: lists of entries, duplicates allowed.
DataLists == UNION {[1..n -> Entries] : n \in 0..MaxData}

\* The filters of a DELETE, and the entry lists of the permission requests
\* that change the inventory's ACL between executions: at most one entry.
ShortLists == {<<>>} \cup {<<e>> : e \in Entries}

\* The acting principal as the identity collaborator supplies it: a user in
\* any set of teams, or a superuser (whose teams decide nothing).
Actors ==
    [id : Users, is_superuser : {FALSE}, teams : SUBSET Teams] \cup
    [id : Users, is_superuser : {TRUE}, teams : {{}}]

\* The actors who are no superuser and in no team: what such an actor may
\* do rests on the owner and on the entries that name the user.
PlainActors == {actor \in Actors : ~actor.is_superuser /\ actor.teams = {}}

NoActor == [id |-> 0, is_superuser |-> FALSE, teams |-> {}]

(***************************************************************************)
(* The error taxonomy: the category and the status code of each exception  *)
(* class.                                                                  *)
(***************************************************************************)
Category(exc) ==
    CASE exc = "PermissionDenied" -> "PermissionDenied"
      [] exc = "ValueError" -> "ValidationError"
      [] exc = "ValidationError" -> "ValidationError"
      [] exc = "ValidationException" -> "Conflict"
      [] exc = "DoesNotExist" -> "NotFound"
      [] exc = "NotApplicable" -> "NotApplicable"
      [] OTHER -> "Other"

\* OneGroupSerializer.ValidationException.status_code; the framework's
\* ValidationError and PermissionDenied carry 400 and 403.
status_code(exc) ==
    CASE exc = "ValidationException" -> 409
      [] exc = "ValidationError" -> 400
      [] exc = "PermissionDenied" -> 403
      [] exc = "DoesNotExist" -> 404
      [] OTHER -> 500

(***************************************************************************)
(* The ACL relation (instance.acl) and the acl_handler predicates.         *)
(***************************************************************************)
EmptyAcl == [e \in Entries |-> 0]

\* The rows of the relation as a set of entries.
AclRows(a) == {e \in Entries : a[e] > 0}

\* The number of rows of the relation.
RECURSIVE SumOver(_, _)
SumOver(a, S) ==
    IF S = {} THEN 0
    ELSE LET e == CHOOSE x \in S : TRUE IN a[e] + SumOver(a, S \ {e})

AclCount(a) == SumOver(a, Entries)

\* The (member, member_type) pair of an entry.
PairOf(e) == [member |-> e.member, member_type |-> e.member_type]

\* The rows of the relation that name the pair.
RowsOfPair(a, p) == SumOver(a, {e \in Entries : PairOf(e) = p})

\* The entry applies to the actor, directly or through a team.
Holds(actor, e) ==
    \/ e.member_type = "user" /\ e.member = actor.id
    \/ e.member_type = "team" /\ e.member \in actor.teams

owned_by(o, actor) == actor.id = o

manageable_by(a, o, actor) ==
    \/ actor.id = o
    \/ actor.is_superuser
    \/ \E e \in AclRows(a) : Holds(actor, e) /\ e.role = "MASTER"

viewable_by(a, o, actor) ==
    \/ actor.id = o
    \/ actor.is_superuser
    \/ \E e \in AclRows(a) : Holds(actor, e) /\ e.role \in Roles

(***************************************************************************)
(* _WithPermissionsSerializer: the permissions operation.                  *)
(***************************************************************************)
\* No request is being served.
NoResp == [op |-> "none", method |-> "GET", actor |-> NoActor, data |-> <<>>,
           pk |-> 0, error |-> "None", body |-> EmptyAcl, owner_body |-> 0,
           pre_acl |-> EmptyAcl, pre_owner |-> 0]

\* instance.acl.clear()
AclClear_keeps(a) == a

AclClear(a) == EmptyAcl

\* instance.acl.all().extend().filter(member=.., member_type=..).delete()
AclDeletePair_none(a, p) == a

AclDeletePair(a, p) == [e \in Entries |-> IF PairOf(e) = p THEN 0 ELSE a[e]]

\* instance.acl.create(**permission_args)
AclCreate(a, e) == [a EXCEPT ![e] = @ + 1]

\* instance.acl.all().filter_by_data(request.data).delete()
AclDeleteByData(a, data) ==
    [e \in Entries |-> IF \E i \in 1..Len(data) : data[i] = e THEN 0 ELSE a[e]]

\* __duplicates_check: TRUE when it raises ValueError.  The frozenset of an
\* integer member and a string member_type is determined by the pair.
duplicates_check_never(data) == FALSE

duplicates_check(data) ==
    LET without_role == [i \in 1..Len(data) |-> PairOf(data[i])]
    IN  Len(without_role) #
            Cardinality({without_role[i] : i \in 1..Len(without_role)})

\* The loop of __permission_set over the entries of the request.
RECURSIVE permission_loop(_, _, _)
permission_loop(a, data, remove_old) ==
    IF data = <<>> THEN a
    ELSE LET permission_args == Head(data)
             kept == IF remove_old
                     THEN AclDeletePair(a, PairOf(permission_args))
                     ELSE a
         IN  permission_loop(AclCreate(kept, permission_args), Tail(data),
                             remove_old)

\* __permission_set: the exception raised, if any, and the relation as the
\* statements executed so far leave it.
permission_set(a, data, remove_old) ==
    IF duplicates_check(data)
    THEN [exc |-> "ValueError", acl |-> a]
    ELSE [exc |-> "None", acl |-> permission_loop(a, data, remove_old)]

\* The guard of permissions: TRUE when PermissionDenied is raised.
permissions_denied_any_method(method, a, o, actor) == ~manageable_by(a, o, actor)

permissions_denied(method, a, o, actor) ==
    method # "GET" /\ ~manageable_by(a, o, actor)

\* The branches of permissions on the request method.
permissions_body(a, method, data) ==
    CASE method = "DELETE" -> [exc |-> "None", acl |-> AclDeleteByData(a, data)]
      [] method = "POST" -> permission_set(a, data, TRUE)
      [] method = "PUT" -> permission_set(AclClear(a), data, FALSE)
      [] OTHER -> [exc |-> "None", acl |-> a]

\* @transaction.atomic on permissions: what is committed of a run that began
\* at pre and ended as out.
transaction_atomic_no_rollback(pre, out) == out.acl

transaction_atomic(pre, out) == IF out.exc = "None" THEN out.acl ELSE pre

Permissions(actor, method, data) ==
    /\ LET out == IF permissions_denied(method, acl, owner, actor)
               THEN [exc |-> "PermissionDenied", acl |-> acl]
               ELSE permissions_body(acl, method, data)
           committed == transaction_atomic(acl, out)
       IN  /\ acl' = committed
           /\ owner' = owner
           /\ resp' = [op |-> "permissions", method |-> method,
                       actor |-> actor, data |-> data, pk |-> 0,
                       error |-> out.exc,
                       body |-> IF out.exc = "None" THEN committed
                                ELSE EmptyAcl,
                       owner_body |-> 0,
                       pre_acl |-> acl, pre_owner |-> owner]
    /\ UNCHANGED <<execVars, reprVars, ptaskVars, groupVars, txnVars,
                   teamVars>>

(***************************************************************************)
(* _WithPermissionsSerializer: the owner operation.                        *)
(***************************************************************************)
\* The guard of _change_owner: TRUE when PermissionDenied is raised.
change_owner_denied_unless_manager(a, o, actor) == ~manageable_by(a, o, actor)

change_owner_denied(a, o, actor) == ~owned_by(o, actor)

\* _change_owner: the exception raised, if any, and the owner afterwards.
change_owner(a, o, actor, pk) ==
    IF change_owner_denied(a, o, actor)
    THEN [exc |-> "PermissionDenied", owner |-> o]
    ELSE IF pk \notin Users
    THEN [exc |-> "DoesNotExist", owner |-> o]
    ELSE [exc |-> "None", owner |-> pk]

Owner(actor, method, pk) ==
    /\ LET out == IF method = "PUT" THEN change_owner(acl, owner, actor, pk)
                  ELSE [exc |-> "None", owner |-> owner]
       IN  /\ owner' = out.owner
           /\ acl' = acl
           /\ resp' = [op |-> "owner", method |-> method, actor |-> actor,
                       data |-> <<>>, pk |-> pk, error |-> out.exc,
                       body |-> EmptyAcl,
                       owner_body |-> IF method = "GET" THEN owner ELSE 0,
                       pre_acl |-> acl, pre_owner |-> owner]
    /\ UNCHANGED <<execVars, reprVars, ptaskVars, groupVars, txnVars,
                   teamVars>>

(***************************************************************************)
(* The permissions operation statement by statement, with a reader on      *)
(* another connection.  acl is what is committed; txn.work is the relation *)
(* as the statements of the open transaction have left it.                 *)
(***************************************************************************)
\* The roles carried by the entries of the calls that run in steps: one that
\* lets its holder manage the entity and one that does not.
TxnRoles == {"MASTER", "EDITOR"}

\* The request bodies of the calls that run in steps.
TxnLists ==
    {data \in DataLists : \A i \in 1..Len(data) : data[i].role \in TxnRoles}

\* No transaction is open.
NoTxn == [pc |-> "idle"]

\* The reader has read nothing.
NoSeen == [op |-> "none"]

\* A transaction is open.
TxnOpen == txn.pc \notin {"idle", "done"}

\* What a query on another connection reads while a transaction is open:
\* transaction.atomic keeps the statements of the transaction off the
\* committed relation until the block is left.
read_uncommitted(committed, work) == work

read_committed(committed, work) == committed

\* permissions is entered: transaction.atomic opens the transaction.
TxnBegin(actor, method, data) ==
    /\ txn.pc = "idle"
    /\ txn' = [pc |-> "guard", method |-> method, actor |-> actor,
               data |-> data, i |-> 1, work |-> acl, save |-> acl,
               exc |-> "None", pre |-> acl]
    /\ seen' = NoSeen
    /\ UNCHANGED <<aclVars, execVars, reprVars, ptaskVars, groupVars,
                   teamVars>>

\* The manageable_by guard and the branch on the request method.
TxnGuard ==
    /\ txn.pc = "guard"
    /\ txn' = IF permissions_denied(txn.method, txn.work, owner, txn.actor)
              THEN [txn EXCEPT !.exc = "PermissionDenied", !.pc = "exit"]
              ELSE [txn EXCEPT !.pc = CASE txn.method = "DELETE" -> "delete"
                                        [] txn.method = "POST" -> "set"
                                        [] txn.method = "PUT" -> "clear"
                                        [] OTHER -> "exit"]
    /\ seen' = NoSeen
    /\ UNCHANGED <<aclVars, execVars, reprVars, ptaskVars, groupVars,
                   teamVars>>

\* DELETE: instance.acl.all().filter_by_data(request.data).delete()
TxnDelete ==
    /\ txn.pc = "delete"
    /\ txn' = [txn EXCEPT !.work = AclDeleteByData(txn.work, txn.data),
                          !.pc = "exit"]
    /\ seen' = NoSeen
    /\ UNCHANGED <<aclVars, execVars, reprVars, ptaskVars, groupVars,
                   teamVars>>

\* PUT: instance.acl.clear()
TxnClear ==
    /\ txn.pc = "clear"
    /\ txn' = [txn EXCEPT !.work = AclClear(txn.work), !.pc = "set"]
    /\ seen' = NoSeen
    /\ UNCHANGED <<aclVars, execVars, reprVars, ptaskVars, groupVars,
                   teamVars>>

\* __permission_set is entered: its transaction.atomic marks a savepoint,
\* then the duplicates check runs.
TxnSet ==
    /\ txn.pc = "set"
    /\ txn' = IF duplicates_check(txn.data)
              THEN [txn EXCEPT !.save = txn.work, !.exc = "ValueError",
                               !.pc = "unwind"]
              ELSE [txn EXCEPT !.save = txn.work, !.pc = "loop"]
    /\ seen' = NoSeen
    /\ UNCHANGED <<aclVars, execVars, reprVars, ptaskVars, groupVars,
                   teamVars>>

\* One iteration of the loop with remove_old: the rows of the pair are
\* deleted.
TxnLoopDelete ==
    /\ txn.pc = "loop" /\ txn.i <= Len(txn.data) /\ txn.method = "POST"
    /\ txn' = [txn EXCEPT
                  !.work = AclDeletePair(txn.work, PairOf(txn.data[txn.i])),
                  !.pc = "create"]
    /\ seen' = NoSeen
    /\ UNCHANGED <<aclVars, execVars, reprVars, ptaskVars, groupVars,
                   teamVars>>

\* instance.acl.create(**permission_args): the row is inserted, or the
\* database refuses it and the exception leaves the loop.
TxnCreate(ok) ==
    /\ \/ txn.pc = "create"
       \/ txn.pc = "loop" /\ txn.method = "PUT"
    /\ txn.i <= Len(txn.data)
    /\ txn' = IF ok
              THEN [txn EXCEPT !.work = AclCreate(txn.work, txn.data[txn.i]),
                               !.i = txn.i + 1, !.pc = "loop"]
              ELSE [txn EXCEPT !.exc = "DatabaseError", !.pc = "unwind"]
    /\ seen' = NoSeen
    /\ UNCHANGED <<aclVars, execVars, reprVars, ptaskVars, groupVars,
                   teamVars>>

\* The loop is over: __permission_set returns and its savepoint is released.
TxnLoopEnd ==
    /\ txn.pc = "loop" /\ txn.i > Len(txn.data)
    /\ txn' = [txn EXCEPT !.pc = "exit"]
    /\ seen' = NoSeen
    /\ UNCHANGED <<aclVars, execVars, reprVars, ptaskVars, groupVars,
                   teamVars>>

\* An exception leaves __permission_set: its transaction.atomic rolls back
\* to the savepoint and the exception goes on to permissions.
TxnUnwind ==
    /\ txn.pc = "unwind"
    /\ txn' = [txn EXCEPT !.work = txn.save, !.pc = "exit"]
    /\ seen' = NoSeen
    /\ UNCHANGED <<aclVars, execVars, reprVars, ptaskVars, groupVars,
                   teamVars>>

\* permissions is left: its transaction.atomic commits, or rolls back when
\* an exception leaves it.
TxnExit ==
    /\ txn.pc = "exit"
    /\ acl' = transaction_atomic(acl, [exc |-> txn.exc, acl |-> txn.work])
    /\ txn' = [txn EXCEPT !.pc = "done"]
    /\ seen' = NoSeen
    /\ UNCHANGED <<owner, resp, execVars, reprVars, ptaskVars, groupVars,
                   teamVars>>

\* The response, or the error, is delivered.
TxnReturn ==
    /\ txn.pc = "done"
    /\ txn' = NoTxn
    /\ seen' = NoSeen
    /\ UNCHANGED <<aclVars, execVars, reprVars, ptaskVars, groupVars,
                   teamVars>>

\* A GET of the permissions on another connection: one query over
\* instance.acl.all().  What it read stays in seen until the transaction
\* takes its next step.
TxnRead ==
    /\ seen.op = "none"
    /\ seen' = [op |-> "read",
                acl |-> IF TxnOpen THEN read_committed(acl, txn.work)
                        ELSE acl]
    /\ UNCHANGED <<txn, aclVars, execVars, reprVars, ptaskVars, groupVars,
                   teamVars>>

(***************************************************************************)
(* OneProjectSerializer._execution.  The entity whose ACL and owner the    *)
(* model holds is the inventory with id 1.                                 *)
(***************************************************************************)
\* The most History rows the model creates.
MaxHistory == 2

\* The ids of the stored inventories.
InventoryIds == {1}

\* The inventory arguments of a request, as character strings: ids of a
\* stored inventory ("1", "01"), an id that names none ("2"), and inline
\* definitions ("h1", "1h", "").
InventoryArgs ==
    {<<"1">>, <<"0", "1">>, <<"2">>, <<"h", "1">>, <<"1", "h">>, <<>>}

Digits == {"0", "1", "2"}

DigitValue(ch) == CASE ch = "0" -> 0 [] ch = "1" -> 1 [] OTHER -> 2

\* int(inventory) raises ValueError: the string is no decimal literal.
int_raises(str) == str = <<>> \/ \E i \in 1..Len(str) : str[i] \notin Digits

\* int(inventory) of a decimal literal.
RECURSIVE int_value(_)
int_value(str) ==
    IF str = <<>> THEN 0
    ELSE 10 * int_value(SubSeq(str, 1, Len(str) - 1)) + DigitValue(str[Len(str)])

NoExec == [op |-> "none", kind |-> "", actor |-> NoActor, arg |-> <<>>,
           template |-> 0, error |-> "None", history_id |-> 0,
           pre_history |-> <<>>, pre_engine |-> <<>>]

\* The permission check on a resolved inventory: TRUE when PermissionDenied
\* is raised.
inventory_denied_never(a, o, user) == FALSE

inventory_denied(a, o, user) == ~viewable_by(a, o, user)

\* The try block of _execution: the exception that leaves it, if any.
resolve_inventory(arg, a, o, user) ==
    IF int_raises(arg) THEN "None"
    ELSE IF int_value(arg) \notin InventoryIds THEN "DoesNotExist"
    ELSE IF inventory_denied(a, o, user) THEN "PermissionDenied"
    ELSE "None"

\* Project.execute: a History row in RUNNING is created, then the run is
\* handed to the execution engine; the id of the row is returned.
project_execute(h, init_type, user) ==
    Append(h, [initiator_type |-> init_type, executor |-> user.id,
               status |-> "RUNNING"])

\* _execution(kind, data, user, template=template)
Execution(kind, arg, user, template) ==
    LET exc == resolve_inventory(arg, acl, owner, user)
        init_type == IF template # 0 THEN "template" ELSE "project"
        started == project_execute(history, init_type, user)
    IN  /\ Len(history) < MaxHistory
        /\ history' = IF exc = "None" THEN started ELSE history
        /\ engine' = IF exc = "None" THEN Append(engine, Len(started))
                     ELSE engine
        /\ xresp' = [op |-> "execute", kind |-> kind, actor |-> user,
                     arg |-> arg, template |-> template, error |-> exc,
                     history_id |-> IF exc = "None" THEN Len(started) ELSE 0,
                     pre_history |-> history, pre_engine |-> engine]
        /\ UNCHANGED <<aclVars, reprVars, ptaskVars, groupVars, txnVars,
                       teamVars>>

\* OneProjectSerializer.execute_playbook
ExecutePlaybook(user, arg) == Execution("playbook", arg, user, 0)

\* OneProjectSerializer.execute_module
ExecuteModule(user, arg) == Execution("module", arg, user, 0)

\* OneTemplateSerializer.execute: the template hands its kind and its data,
\* the inventory among them, to the project serializer's _execution.
TemplateExecute(user, kind, arg) == Execution(kind, arg, user, 1)

(***************************************************************************)
(* Output representations: VariableSerializer, _WithVariablesSerializer    *)
(* and TemplateSerializer.                                                 *)
(***************************************************************************)
\* The literal that stands for a hidden value on output.
ENCRYPTED == "[~~ENCRYPTED~~]"

\* The variable keys and values of the stored instances.
Keys == {"repo_password", "private-key", "forks"}
Values == {"secret", ENCRYPTED}

\* The mark of a key that a variable map does not hold.
Absent == "<absent>"

\* The variable maps: each key with its value, or absent.
VarMaps == [Keys -> Values \cup {Absent}]
NoVars == [k \in Keys |-> Absent]

\* The kinds of the entities that own variables; a History owns none and
\* declares no HIDDEN_VARS.
OwnerKinds == {"Project", "PeriodicTask", "History"}

\* The HIDDEN_VARS attribute of a model class, [] where it declares none.
HIDDEN_VARS(kind) ==
    CASE kind = "Project" -> {"repo_password"}
      [] kind = "PeriodicTask" -> {"private-key"}
      [] kind = "Template" -> {"private-key"}
      [] OTHER -> {}

\* A Template's kinds: the two that are rendered, and one that is not.
TemplateKinds == {"Task", "Module", "Host"}

\* The names of a Template's options.
OptionNames == {"opt1", "opt2"}

\* A 'vars' member of a representation: missing, or a variable map.
VarsMembers ==
    {[has_vars |-> FALSE, vars |-> NoVars]} \cup
    {[has_vars |-> TRUE, vars |-> m] : m \in VarMaps}

\* One option of a Template: not defined, or a 'vars' member.
NoOption == [present |-> FALSE, has_vars |-> FALSE, vars |-> NoVars]
OptionValues ==
    {NoOption} \cup
    {[present |-> TRUE, has_vars |-> d.has_vars, vars |-> d.vars] :
        d \in VarsMembers}

NoOptions == [n \in OptionNames |-> NoOption]
NoData == [has_vars |-> FALSE, vars |-> NoVars]

\* The stored instances: a Variable row of an owning entity, an entity with
\* variables, and a Template with its data and options.
VariableInstances ==
    {[model |-> "Variable", kind |-> c, key |-> k, value |-> v,
      data |-> NoData, options |-> NoOptions] :
        c \in OwnerKinds, k \in Keys, v \in Values}

EntityInstances ==
    {[model |-> "Entity", kind |-> c, key |-> "", value |-> "",
      data |-> d, options |-> NoOptions] :
        c \in OwnerKinds, d \in VarsMembers}

TemplateInstances ==
    {[model |-> "Template", kind |-> c, key |-> "", value |-> "",
      data |-> d, options |-> o] :
        c \in TemplateKinds, d \in VarsMembers, o \in [OptionNames -> OptionValues]}

Instances == VariableInstances \cup EntityInstances \cup TemplateInstances

NoInst == [model |-> "none", kind |-> "", key |-> "", value |-> "",
           data |-> NoData, options |-> NoOptions]

NoRep == [of |-> "none", empty |-> TRUE, key |-> "", value |-> "",
          data |-> NoData, options |-> NoOptions]

\* The masking loop: every key of hv that the map holds gets the literal.
MaskVars_none(varmap, hv) == varmap

MaskVars(varmap, hv) ==
    [k \in Keys |->
        IF k \in hv /\ varmap[k] # Absent THEN ENCRYPTED ELSE varmap[k]]

\* VariableSerializer.to_representation
VariableRepresentation(instance) ==
    [of |-> "Variable", empty |-> FALSE, key |-> instance.key,
     value |-> IF instance.key \in HIDDEN_VARS(instance.kind)
               THEN ENCRYPTED ELSE instance.value,
     data |-> NoData, options |-> NoOptions]

\* _WithVariablesSerializer.to_representation: get_vars gives the 'vars'
\* member of the representation, if it has one.
WithVariablesRepresentation(instance, hidden_vars) ==
    [of |-> instance.model, empty |-> FALSE, key |-> "", value |-> "",
     data |-> IF instance.data.has_vars
              THEN [has_vars |-> TRUE,
                    vars |-> MaskVars(instance.data.vars, hidden_vars)]
              ELSE instance.data,
     options |-> instance.options]

\* TemplateSerializer.set_opts_vars
set_opts_vars(option, hidden_vars) ==
    IF ~option.has_vars \/ option.vars = NoVars THEN option
    ELSE [option EXCEPT !.vars = MaskVars(option.vars, hidden_vars)]

\* TemplateSerializer.repr_options
repr_options(data, hidden_vars) ==
    [data EXCEPT !.options =
        [n \in OptionNames |-> IF data.options[n].present
                               THEN set_opts_vars(data.options[n], hidden_vars)
                               ELSE data.options[n]]]

\* TemplateSerializer.to_representation
TemplateRepresentation(instance) ==
    IF instance.kind \in {"Task", "Module"}
    THEN repr_options(
             WithVariablesRepresentation(instance, HIDDEN_VARS("PeriodicTask")),
             HIDDEN_VARS("PeriodicTask"))
    ELSE [NoRep EXCEPT !.of = "Template"]

\* A Variable row is rendered.
RenderVariable ==
    /\ inst.model = "Variable"
    /\ rep' = VariableRepresentation(inst)
    /\ UNCHANGED <<inst, aclVars, execVars, ptaskVars, groupVars, txnVars,
                   teamVars>>

\* An entity with variables is rendered.
RenderEntity ==
    /\ inst.model = "Entity"
    /\ rep' = WithVariablesRepresentation(inst, HIDDEN_VARS(inst.kind))
    /\ UNCHANGED <<inst, aclVars, execVars, ptaskVars, groupVars, txnVars,
                   teamVars>>

\* A Template is rendered.
RenderTemplate ==
    /\ inst.model = "Template"
    /\ rep' = TemplateRepresentation(inst)
    /\ UNCHANGED <<inst, aclVars, execVars, ptaskVars, groupVars, txnVars,
                   teamVars>>

(***************************************************************************)
(* Create and update through the serializers with variables.               *)
(***************************************************************************)
\* The mark of a field that the validated data do not hold.
Missing == "<missing>"

\* with_signals: the wrapped create or update and the api_pre_save receivers
\* run in one atomic block, the api_post_save receivers in a second one.
\* The exception that leaves the wrapper, if any, and what is written then.
\* ran lists what ran, in order: the wrapped function, then the receivers
\* of each signal sent.
with_signals(before, after, pre_ok, post_ok) ==
    IF ~pre_ok
    THEN [exc |-> "HookError", state |-> before,
          ran |-> <<"func", "api_pre_save">>]
    ELSE IF ~post_ok
    THEN [exc |-> "HookError", state |-> after,
          ran |-> <<"func", "api_pre_save", "api_post_save">>]
    ELSE [exc |-> "None", state |-> after,
          ran |-> <<"func", "api_pre_save", "api_post_save">>]

\* A call that an exception left before the wrapped function was reached.
not_reached(exc, state) == [exc |-> exc, state |-> state, ran |-> <<>>]

\* @transaction.atomic on _WithVariablesSerializer._do_with_vars: what is
\* committed of a run that began at before and ended as out.
do_with_vars(before, out) == IF out.exc = "None" THEN out.state ELSE before

(***************************************************************************)
(* PeriodictaskSerializer.                                                 *)
(***************************************************************************)
\* models.PeriodicTask.kinds; the first is the default of the kind field.
PeriodicTaskKinds == <<"PLAYBOOK", "MODULE", "TEMPLATE">>

KindValues == {PeriodicTaskKinds[i] : i \in 1..Len(PeriodicTaskKinds)}

\* The stored templates (0 stands for None).
TemplateIds == {1}

NoTask == [exists |-> FALSE, kind |-> "", mode |-> "", inventory |-> "",
           template |-> 0]

\* The data of a request: each field given or left out.  mode and inventory
\* are CharFields that refuse a blank string.
TaskData ==
    [kind : KindValues \cup {Missing}, mode : {"ping", Missing},
     inventory : {"1", Missing}, template : TemplateIds \cup {0}]

\* The validated data: a full create or update fills a kind left out with
\* the default of the field, a partial update leaves it out.
validated_data(data, partial) ==
    IF ~partial /\ data.kind = Missing
    THEN [data EXCEPT !.kind = PeriodicTaskKinds[1]]
    ELSE data

\* PeriodictaskSerializer._do_with_vars: the validated data handed on, or
\* the AttributeError of template.project on None.
periodictask_kw(kw) ==
    IF kw.kind = "TEMPLATE"
    THEN IF kw.template = 0
         THEN [exc |-> "AttributeError", kw |-> kw]
         ELSE [exc |-> "None",
               kw |-> [kw EXCEPT !.inventory = "", !.mode = ""]]
    ELSE [exc |-> "None", kw |-> kw]

\* ModelSerializer.create: a row from the validated data, the model's
\* defaults for what they leave out.
task_create(kw) ==
    [exists |-> TRUE, kind |-> kw.kind,
     mode |-> IF kw.mode = Missing THEN "" ELSE kw.mode,
     inventory |-> IF kw.inventory = Missing THEN "" ELSE kw.inventory,
     template |-> kw.template]

\* ModelSerializer.update: each field of the validated data is set.
task_update(instance, kw) ==
    [exists |-> TRUE,
     kind |-> IF kw.kind = Missing THEN instance.kind ELSE kw.kind,
     mode |-> IF kw.mode = Missing THEN instance.mode ELSE kw.mode,
     inventory |-> IF kw.inventory = Missing THEN instance.inventory
                   ELSE kw.inventory,
     template |-> IF kw.template = 0 THEN instance.template ELSE kw.template]

NoTaskResp == [op |-> "none", partial |-> FALSE,
               data |-> [kind |-> Missing, mode |-> Missing,
                         inventory |-> Missing, template |-> 0],
               error |-> "None", pre |-> NoTask]

\* PeriodictaskSerializer.create
PeriodictaskCreate(data, pre_ok, post_ok) ==
    LET kw == periodictask_kw(validated_data(data, FALSE))
        out == IF kw.exc # "None" THEN not_reached(kw.exc, ptask)
               ELSE with_signals(ptask, task_create(kw.kw), pre_ok, post_ok)
    IN  /\ ~ptask.exists
        /\ ptask' = do_with_vars(ptask, out)
        /\ presp' = [NoTaskResp EXCEPT !.op = "create", !.data = data,
                                       !.error = out.exc, !.pre = ptask]
        /\ UNCHANGED <<aclVars, execVars, reprVars, groupVars, txnVars,
                       teamVars>>

\* PeriodictaskSerializer.update, full (PUT) or partial (PATCH)
PeriodictaskUpdate(data, partial, pre_ok, post_ok) ==
    LET kw == periodictask_kw(validated_data(data, partial))
        out == IF kw.exc # "None" THEN not_reached(kw.exc, ptask)
               ELSE with_signals(ptask, task_update(ptask, kw.kw),
                                 pre_ok, post_ok)
    IN  /\ ptask.exists
        /\ ptask' = do_with_vars(ptask, out)
        /\ presp' = [NoTaskResp EXCEPT !.op = "update", !.partial = partial,
                                       !.data = data, !.error = out.exc,
                                       !.pre = ptask]
        /\ UNCHANGED <<aclVars, execVars, reprVars, groupVars, txnVars,
                       teamVars>>

\* What _WithPermissionsSerializer.permissions, which the class overrides,
\* would do with the task's own ACL.
periodictask_permissions_inherited(method, a, o, actor, data) ==
    LET out == IF permissions_denied(method, a, o, actor)
               THEN [exc |-> "PermissionDenied", acl |-> a]
               ELSE permissions_body(a, method, data)
    IN  [exc |-> out.exc, acl |-> transaction_atomic(a, out),
         returned |-> IF out.exc = "None" THEN "acl" ELSE "nothing"]

\* PeriodictaskSerializer.permissions: the exception raised, the task's ACL
\* afterwards and what the call returns.
periodictask_permissions(method, a, o, actor, data) ==
    [exc |-> "NotApplicable", acl |-> a, returned |-> "nothing"]

\* PeriodictaskSerializer.owner: the exception raised, the task's owner
\* afterwards and what the call returns.
periodictask_owner(method, a, o, actor, pk) ==
    [exc |-> "NotApplicable", owner |-> o, returned |-> "nothing"]

\* The permissions operation on a periodic task; acl and owner are here the
\* task's own.
PeriodictaskPermissions(actor, method, data) ==
    LET out == periodictask_permissions(method, acl, owner, actor, data)
    IN  /\ ptask.exists
        /\ acl' = out.acl
        /\ presp' = [op |-> "permissions", method |-> method,
                     actor |-> actor, entries |-> data, pk |-> 0,
                     error |-> out.exc, returned |-> out.returned,
                     pre |-> ptask, pre_acl |-> acl, pre_owner |-> owner]
        /\ UNCHANGED <<owner, resp, ptask, execVars, reprVars, groupVars,
                       txnVars, teamVars>>

\* The owner operation on a periodic task.
PeriodictaskOwner(actor, method, pk) ==
    LET out == periodictask_owner(method, acl, owner, actor, pk)
    IN  /\ ptask.exists
        /\ owner' = out.owner
        /\ presp' = [op |-> "owner", method |-> method,
                     actor |-> actor, entries |-> <<>>, pk |-> pk,
                     error |-> out.exc, returned |-> out.returned,
                     pre |-> ptask, pre_acl |-> acl, pre_owner |-> owner]
        /\ UNCHANGED <<acl, resp, ptask, execVars, reprVars, groupVars,
                       txnVars, teamVars>>

(***************************************************************************)
(* GroupSerializer / OneGroupSerializer.                                   *)
(***************************************************************************)
\* The hosts and groups that may be members of the group.
HostIds == {1, 2}
SubgroupIds == {1, 2}
GroupNames == {"a", "b"}

NoGroup == [exists |-> FALSE, name |-> "", children |-> FALSE, hosts |-> {},
            subgroups |-> {}]

\* The validated data of a group request: children is "true", "false" or
\* left out; name is given or left out.
GroupData == [name : GroupNames \cup {Missing},
              children : {"true", "false", Missing}]

BoolOf(text) == text = "true"

NoGroupResp == [op |-> "none", data |-> [name |-> Missing, children |-> Missing],
                member |-> 0, error |-> "None", pre |-> NoGroup,
                pre_ok |-> TRUE, post_ok |-> TRUE, ran |-> <<>>]

\* _WithVariablesSerializer.update: TRUE when the children of the validated
\* data differ from the instance's.
children_changed(instance, data) ==
    (IF data.children = Missing THEN instance.children
     ELSE BoolOf(data.children)) # instance.children

\* ModelSerializer.create and update of a Group.
group_create(data) ==
    [exists |-> TRUE,
     name |-> IF data.name = Missing THEN "" ELSE data.name,
     children |-> IF data.children = Missing THEN FALSE
                  ELSE BoolOf(data.children),
     hosts |-> {}, subgroups |-> {}]

group_update(instance, data) ==
    [instance EXCEPT
        !.name = IF data.name = Missing THEN @ ELSE data.name,
        !.children = IF data.children = Missing THEN @
                     ELSE BoolOf(data.children)]

\* GroupSerializer.create
GroupCreate(data, pre_ok, post_ok) ==
    LET out == with_signals(group, group_create(data), pre_ok, post_ok)
    IN  /\ ~group.exists
        /\ data.name # Missing
        /\ group' = do_with_vars(group, out)
        /\ gresp' = [op |-> "create", data |-> data, member |-> 0,
                     error |-> out.exc, pre |-> group,
                     pre_ok |-> pre_ok, post_ok |-> post_ok, ran |-> out.ran]
        /\ UNCHANGED <<aclVars, execVars, reprVars, ptaskVars, txnVars,
                       teamVars>>

\* GroupSerializer.update (_WithVariablesSerializer.update)
GroupUpdate(data, pre_ok, post_ok) ==
    LET out == IF children_changed(group, data)
               THEN not_reached("ValidationError", group)
               ELSE with_signals(group, group_update(group, data),
                                 pre_ok, post_ok)
    IN  /\ group.exists
        /\ group' = do_with_vars(group, out)
        /\ gresp' = [op |-> "update", data |-> data, member |-> 0,
                     error |-> out.exc, pre |-> group,
                     pre_ok |-> pre_ok, post_ok |-> post_ok, ran |-> out.ran]
        /\ UNCHANGED <<aclVars, execVars, reprVars, ptaskVars, txnVars,
                       teamVars>>

\* A host is attached to a group that holds hosts.
GroupAddHost(h) ==
    /\ group.exists /\ ~group.children
    /\ group' = [group EXCEPT !.hosts = @ \cup {h}]
    /\ gresp' = [NoGroupResp EXCEPT !.op = "add_host", !.member = h,
                                    !.pre = group]
    /\ UNCHANGED <<aclVars, execVars, reprVars, ptaskVars, txnVars, teamVars>>

\* A subgroup is attached to a group that holds groups.
GroupAddSubgroup(g) ==
    /\ group.exists /\ group.children
    /\ group' = [group EXCEPT !.subgroups = @ \cup {g}]
    /\ gresp' = [NoGroupResp EXCEPT !.op = "add_subgroup", !.member = g,
                                    !.pre = group]
    /\ UNCHANGED <<aclVars, execVars, reprVars, ptaskVars, txnVars, teamVars>>

(***************************************************************************)
(* TeamSerializer: a signal-wrapped serializer without variables.          *)
(***************************************************************************)
TeamNames == {"a", "b"}

NoTeam == [exists |-> FALSE, name |-> "", owner |-> 0]

\* The validated data of a team request: the name given or left out.
TeamData == [name : TeamNames \cup {Missing}]

NoTeamResp == [op |-> "none", data |-> [name |-> Missing], user |-> 0,
               error |-> "None", pre |-> NoTeam,
               pre_ok |-> TRUE, post_ok |-> TRUE, ran |-> <<>>]

\* ModelSerializer.create and update of a team.
team_create(data, user) ==
    [exists |-> TRUE, name |-> data.name, owner |-> user]

team_update(instance, data) ==
    [instance EXCEPT !.name = IF data.name = Missing THEN @ ELSE data.name]

\* TeamSerializer.create: _WithPermissionsSerializer.create names the
\* current user as owner and hands on to _SignalSerializer.create.
TeamCreate(user, data, pre_ok, post_ok) ==
    LET out == with_signals(team, team_create(data, user), pre_ok, post_ok)
    IN  /\ ~team.exists
        /\ data.name # Missing
        /\ team' = out.state
        /\ tresp' = [op |-> "create", data |-> data, user |-> user,
                     error |-> out.exc, pre |-> team,
                     pre_ok |-> pre_ok, post_ok |-> post_ok, ran |-> out.ran]
        /\ UNCHANGED <<aclVars, execVars, reprVars, ptaskVars, groupVars,
                       txnVars>>

\* TeamSerializer.update (_SignalSerializer.update)
TeamUpdate(user, data, pre_ok, post_ok) ==
    LET out == with_signals(team, team_update(team, data), pre_ok, post_ok)
    IN  /\ team.exists
        /\ team' = out.state
        /\ tresp' = [op |-> "update", data |-> data, user |-> user,
                     error |-> out.exc, pre |-> team,
                     pre_ok |-> pre_ok, post_ok |-> post_ok, ran |-> out.ran]
        /\ UNCHANGED <<aclVars, execVars, reprVars, ptaskVars, groupVars,
                       txnVars>>

(***************************************************************************)
(* Initial states.                                                         *)
(***************************************************************************)
\* A new entity: _WithPermissionsSerializer.create makes the current user
\* its owner, and its ACL is empty.
AclInit ==
    /\ acl = EmptyAcl
    /\ owner \in Users
    /\ resp = NoResp

ExecInit ==
    /\ history = <<>>
    /\ engine = <<>>
    /\ xresp = NoExec

ReprInit ==
    /\ inst = NoInst
    /\ rep = NoRep

PtaskInit ==
    /\ ptask = NoTask
    /\ presp = NoTaskResp

GroupInit ==
    /\ group = NoGroup
    /\ gresp = NoGroupResp

TxnInit ==
    /\ txn = NoTxn
    /\ seen = NoSeen

TeamInit ==
    /\ team = NoTeam
    /\ tresp = NoTeamResp

Init ==
    /\ AclInit /\ ExecInit /\ ReprInit /\ PtaskInit /\ GroupInit
    /\ TxnInit /\ TeamInit

(***************************************************************************)
(* The permissions and owner operations of one ACL-bearing entity.         *)
(***************************************************************************)
\* The response is delivered and the request is over: the next one may begin.
Return ==
    /\ resp.op # "none"
    /\ resp' = NoResp
    /\ UNCHANGED <<acl, owner, execVars, reprVars, ptaskVars, groupVars,
                   txnVars, teamVars>>

\* One request is served at a time.
Idle == resp.op = "none"

Next ==
    \/ Idle /\ \E actor \in Actors : Permissions(actor, "GET", <<>>)
    \/ Idle /\ \E actor \in PlainActors, method \in {"POST", "PUT"},
                  data \in DataLists :
                   Permissions(actor, method, data)
    \/ Idle /\ \E actor \in Actors \ PlainActors,
                  method \in {"POST", "PUT"}, data \in ShortLists :
                   Permissions(actor, method, data)
    \/ Idle /\ \E actor \in Actors, data \in ShortLists :
                   Permissions(actor, "DELETE", data)
    \/ Idle /\ \E actor \in Actors, method \in Methods \ {"PUT"} :
                   Owner(actor, method, 0)
    \/ Idle /\ \E actor \in Actors, pk \in Users \cup MissingUsers :
                   Owner(actor, "PUT", pk)
    \/ Return

Spec == Init /\ [][Next]_vars

(***************************************************************************)
(* Properties of the permissions and owner operations.                     *)
(***************************************************************************)
\* The entries of a request body, as a set.
Range(data) == {data[i] : i \in 1..Len(data)}

\* No two entries of the list share (member, member_type).
DupFree(data) ==
    \A i, j \in 1..Len(data) : i # j => PairOf(data[i]) # PairOf(data[j])

\* The pairs named by a request body.
PairsNamed(data) == {PairOf(data[i]) : i \in 1..Len(data)}

\* The actor of the last request could manage the entity when it arrived.
WasManager == manageable_by(resp.pre_acl, resp.pre_owner, resp.actor)

\* C1: a permissions call is rejected with PermissionDenied exactly when its
\* method is not GET and the actor cannot manage the entity; GET is allowed
\* for any actor; a rejected call leaves the ACL and the owner as they were.
C1_DeniedExactlyWhenNotManager ==
    resp.op = "permissions" =>
        /\ (resp.error = "PermissionDenied") <=>
               (resp.method # "GET" /\ ~WasManager)
        /\ resp.method = "GET" => resp.error = "None"
        /\ resp.error = "PermissionDenied" =>
               acl = resp.pre_acl /\ owner = resp.pre_owner

\* A PUT of a non-empty list on a non-empty ACL by an EDITOR of the entity
\* was rejected.
C1_Witness ==
    /\ resp.op = "permissions" /\ resp.method = "PUT"
    /\ resp.error = "PermissionDenied"
    /\ resp.data # <<>>
    /\ \E e \in AclRows(resp.pre_acl) :
           Holds(resp.actor, e) /\ e.role = "EDITOR"

\* C2: a PUT of a duplicate-free list S by an actor who can manage the entity
\* succeeds, and the ACL afterwards, which is what the PUT returns and what a
\* GET lists, holds exactly the entries of S, each once, whatever it held.
C2_ReplaceYieldsExactlyS ==
    /\ (resp.op = "permissions" /\ resp.method = "PUT" /\ WasManager
            /\ DupFree(resp.data)) =>
           /\ resp.error = "None"
           /\ AclRows(acl) = Range(resp.data)
           /\ \A e \in Entries : acl[e] <= 1
           /\ resp.body = acl
    /\ (resp.op = "permissions" /\ resp.method = "GET") =>
           resp.body = acl /\ acl = resp.pre_acl

\* A PUT replaced an ACL holding an entry that is not in the new set.
C2_Witness ==
    /\ resp.op = "permissions" /\ resp.method = "PUT" /\ resp.error = "None"
    /\ Len(resp.data) = MaxData
    /\ \E e \in AclRows(resp.pre_acl) :
           PairOf(e) \notin PairsNamed(resp.data)

\* C3: a POST of a duplicate-free list by an actor who can manage the entity
\* succeeds; every pair it names ends with exactly the incoming entry; every
\* entry of a pair it does not name is as before; the number of entries grows
\* by the number of named pairs that were not in the ACL.
C3_MergeIsUpsert ==
    (resp.op = "permissions" /\ resp.method = "POST" /\ WasManager
         /\ DupFree(resp.data)) =>
        /\ resp.error = "None"
        /\ \A e \in Entries :
               acl[e] = IF PairOf(e) \in PairsNamed(resp.data)
                        THEN (IF e \in Range(resp.data) THEN 1 ELSE 0)
                        ELSE resp.pre_acl[e]
        /\ AclCount(acl) = AclCount(resp.pre_acl) +
               Cardinality({p \in PairsNamed(resp.data) :
                               RowsOfPair(resp.pre_acl, p) = 0})

\* A POST changed the role of an existing member, added a new member and left
\* a third entry alone.
C3_Witness ==
    /\ resp.op = "permissions" /\ resp.method = "POST" /\ resp.error = "None"
    /\ \E i, j \in 1..Len(resp.data) :
           /\ RowsOfPair(resp.pre_acl, PairOf(resp.data[i])) = 1
           /\ resp.pre_acl[resp.data[i]] = 0
           /\ RowsOfPair(resp.pre_acl, PairOf(resp.data[j])) = 0
    /\ \E e \in AclRows(resp.pre_acl) :
           PairOf(e) \notin PairsNamed(resp.data)

\* C4: no two rows of the ACL share (member, member_type).
C4_NoDuplicatePairs ==
    \A p \in {PairOf(e) : e \in Entries} : RowsOfPair(acl, p) <= 1

\* A POST that overwrote an entry left an ACL of at least two rows.
C4_Witness ==
    /\ resp.op = "permissions" /\ resp.method = "POST" /\ resp.error = "None"
    /\ AclCount(acl) >= 2
    /\ \E i \in 1..Len(resp.data) :
           RowsOfPair(resp.pre_acl, PairOf(resp.data[i])) = 1

C6_SetOwnerOnlyByOwner ==
    resp.op = "owner" =>
        /\ acl = resp.pre_acl
        /\ (resp.method = "PUT" /\ ~owned_by(resp.pre_owner, resp.actor)) =>
               resp.error = "PermissionDenied" /\ owner = resp.pre_owner
        /\ (resp.method = "PUT" /\ owned_by(resp.pre_owner, resp.actor)
                /\ resp.pk \in Users) =>
               resp.error = "None" /\ owner = resp.pk
        /\ resp.error # "None" => owner = resp.pre_owner
        /\ resp.method # "PUT" => owner = resp.pre_owner /\ resp.error = "None"
        /\ resp.method = "GET" => resp.owner_body = owner

\* A superuser holding MASTER who is not the owner was refused the change of
\* owner.
C6_Witness ==
    /\ resp.op = "owner" /\ resp.method = "PUT"
    /\ resp.error = "PermissionDenied"
    /\ resp.actor.is_superuser
    /\ \E e \in AclRows(acl) : Holds(resp.actor, e) /\ e.role = "MASTER"
    /\ resp.pk \in Users /\ resp.pk # resp.pre_owner

(***************************************************************************)
(* Executions against the inventory while its ACL and owner change.        *)
(***************************************************************************)
ExecIdle == resp.op = "none" /\ xresp.op = "none"

ExecReturn ==
    /\ ~ExecIdle
    /\ resp' = NoResp
    /\ xresp' = NoExec
    /\ UNCHANGED <<acl, owner, history, engine, reprVars, ptaskVars,
                   groupVars, txnVars, teamVars>>

ExecNext ==
    \/ ExecIdle /\ \E actor \in Actors, data \in ShortLists :
                       Permissions(actor, "PUT", data)
    \/ ExecIdle /\ \E actor \in Actors, pk \in Users : Owner(actor, "PUT", pk)
    \/ ExecIdle /\ \E user \in Actors, arg \in InventoryArgs :
                       ExecutePlaybook(user, arg)
    \/ ExecIdle /\ \E user \in Actors, arg \in InventoryArgs :
                       ExecuteModule(user, arg)
    \/ ExecIdle /\ \E user \in Actors, kind \in {"playbook", "module"},
                      arg \in InventoryArgs :
                       TemplateExecute(user, kind, arg)
    \/ ExecReturn

SpecExec == Init /\ [][ExecNext]_vars

\* The inventory argument of the last execution is the id of a stored
\* inventory.
ArgIsStoredId ==
    /\ xresp.arg # <<>>
    /\ \A i \in 1..Len(xresp.arg) : xresp.arg[i] \in Digits
    /\ int_value(xresp.arg) \in InventoryIds

\* The inventory argument of the last execution is an inline definition.
ArgIsInline ==
    xresp.arg = <<>> \/ \E i \in 1..Len(xresp.arg) : xresp.arg[i] \notin Digits

\* The last execution created one History row in RUNNING for its executor and
\* handed it to the engine.
Proceeded ==
    /\ xresp.error = "None"
    /\ Len(history) = Len(xresp.pre_history) + 1
    /\ SubSeq(history, 1, Len(xresp.pre_history)) = xresp.pre_history
    /\ history[Len(history)].executor = xresp.actor.id
    /\ history[Len(history)].status = "RUNNING"
    /\ history[Len(history)].initiator_type =
           (IF xresp.template # 0 THEN "template" ELSE "project")
    /\ engine = Append(xresp.pre_engine, Len(history))
    /\ xresp.history_id = Len(history)

\* C7: an execution whose inventory argument is the id of a stored inventory
\* that the executor cannot view at the time of the call fails with
\* PermissionDenied, creates no History row and hands nothing to the engine;
\* with an id the executor can view, or with an inline definition, whoever
\* the executor is, it proceeds.
C7_InventoryCheckedAtExecution ==
    xresp.op = "execute" =>
        /\ (ArgIsStoredId /\ ~viewable_by(acl, owner, xresp.actor)) =>
               /\ xresp.error = "PermissionDenied"
               /\ history = xresp.pre_history
               /\ engine = xresp.pre_engine
        /\ (ArgIsStoredId /\ viewable_by(acl, owner, xresp.actor)) => Proceeded
        /\ ArgIsInline => Proceeded
        /\ xresp.error # "None" =>
               history = xresp.pre_history /\ engine = xresp.pre_engine

\* An executor whose earlier run on the inventory was started is refused a
\* template run on it after losing the permission.
C7_Witness ==
    /\ xresp.op = "execute" /\ xresp.error = "PermissionDenied"
    /\ xresp.template # 0
    /\ history # <<>>
    /\ history[1].executor = xresp.actor.id
    /\ ~xresp.actor.is_superuser

(***************************************************************************)
(* Representations of stored instances.                                    *)
(***************************************************************************)
ReprInit0 ==
    /\ inst \in Instances
    /\ rep = NoRep

ReprSpecInit ==
    /\ AclInit /\ ExecInit /\ ReprInit0 /\ PtaskInit /\ GroupInit
    /\ TxnInit /\ TeamInit

\* The representation has gone out; the instance may be rendered again.
ReprReturn ==
    /\ rep.of # "none"
    /\ rep' = NoRep
    /\ UNCHANGED <<inst, aclVars, execVars, ptaskVars, groupVars, txnVars,
                   teamVars>>

ReprNext ==
    \/ rep.of = "none" /\ RenderVariable
    \/ rep.of = "none" /\ RenderEntity
    \/ rep.of = "none" /\ RenderTemplate
    \/ ReprReturn

SpecRepr == ReprSpecInit /\ [][ReprNext]_vars

\* The hidden keys of the kind that owns the variables of an instance.
OwningHidden(instance) ==
    IF instance.model = "Template" THEN HIDDEN_VARS("Template")
    ELSE HIDDEN_VARS(instance.kind)

\* What a variable map shows: the literal for a hidden key it holds, the
\* stored value for any other key, and no key it does not hold.
Shown(stored, shown, hidden) ==
    \A k \in Keys :
        shown[k] = IF stored[k] = Absent THEN Absent
                   ELSE IF k \in hidden THEN ENCRYPTED
                   ELSE stored[k]

\* The representation of an instance.
Representation(instance) ==
    CASE instance.model = "Variable" -> VariableRepresentation(instance)
      [] instance.model = "Entity" ->
             WithVariablesRepresentation(instance, HIDDEN_VARS(instance.kind))
      [] OTHER -> TemplateRepresentation(instance)

\* The instances that differ from the given one at most in the value of one
\* hidden key, in one of its variable maps.
HiddenVariants(instance) ==
    LET h == OwningHidden(instance)
        Same(m1, m2) ==
            \A k \in Keys : /\ (m1[k] = Absent) <=> (m2[k] = Absent)
                            /\ k \notin h => m1[k] = m2[k]
    IN  {i2 \in {[instance EXCEPT !.value = v] : v \in Values} :
            instance.model = "Variable" /\ instance.key \in h}
        \cup {[instance EXCEPT !.data.vars = m] :
                 m \in {m2 \in VarMaps : Same(instance.data.vars, m2)}}
        \cup UNION {{[instance EXCEPT !.options[n].vars = m] :
                        m \in {m2 \in VarMaps :
                                  Same(instance.options[n].vars, m2)}} :
                    n \in OptionNames}

PtaskReturn ==
    /\ presp.op # "none"
    /\ presp' = NoTaskResp
    /\ UNCHANGED <<ptask, aclVars, execVars, reprVars, groupVars, txnVars,
                   teamVars>>

PtaskNext ==
    \/ presp.op = "none" /\ \E data \in TaskData, pre_ok, post_ok \in BOOLEAN :
                                PeriodictaskCreate(data, pre_ok, post_ok)
    \/ presp.op = "none" /\ \E data \in TaskData,
                               partial, pre_ok, post_ok \in BOOLEAN :
                                PeriodictaskUpdate(data, partial, pre_ok, post_ok)
    \/ presp.op = "none" /\ \E actor \in Actors, method \in Methods,
                               data \in ShortLists :
                                PeriodictaskPermissions(actor, method, data)
    \/ presp.op = "none" /\ \E actor \in Actors, method \in Methods,
                               pk \in Users \cup MissingUsers :
                                PeriodictaskOwner(actor, method, pk)
    \/ PtaskReturn

SpecPtask == Init /\ [][PtaskNext]_vars

\* C9: every stored periodic task of kind TEMPLATE has an empty inventory
\* and an empty mode.
C9_TemplateTaskHasNoInventoryNoMode ==
    (ptask.exists /\ ptask.kind = "TEMPLATE") =>
        (ptask.inventory = "" /\ ptask.mode = "")

\* What the code does keep: a create or an update whose validated data name
\* the kind TEMPLATE stores an empty inventory and an empty mode.
TemplateKindWrittenBlank ==
    (presp.op \in {"create", "update"} /\ presp.error = "None"
         /\ validated_data(presp.data, presp.partial).kind = "TEMPLATE") =>
        (ptask.kind = "TEMPLATE" /\ ptask.inventory = "" /\ ptask.mode = "")

\* C12: on a periodic task the permissions operation and the owner
\* operation fail with NotApplicable for every request method, GET included,
\* and every actor; the task, its ACL and its owner are as before; nothing
\* is returned.
C12_PermissionsAndOwnerNotApplicable ==
    presp.op \in {"permissions", "owner"} =>
        /\ presp.error = "NotApplicable"
        /\ Category(presp.error) = "NotApplicable"
        /\ presp.returned = "nothing"
        /\ acl = presp.pre_acl
        /\ owner = presp.pre_owner
        /\ ptask = presp.pre

\* The task's owner asked to replace its ACL with one entry and was refused.
C12_Witness ==
    /\ presp.op = "permissions" /\ presp.method = "PUT"
    /\ presp.actor.id = presp.pre_owner
    /\ Len(presp.entries) = 1
    /\ presp.error = "NotApplicable"
    /\ ptask.exists

(***************************************************************************)
(* Groups.                                                                 *)
(***************************************************************************)
GroupReturn ==
    /\ gresp.op # "none"
    /\ gresp' = NoGroupResp
    /\ UNCHANGED <<group, aclVars, execVars, reprVars, ptaskVars, txnVars,
                   teamVars>>

GroupNext ==
    \/ gresp.op = "none" /\ \E data \in GroupData, pre_ok, post_ok \in BOOLEAN :
                                GroupCreate(data, pre_ok, post_ok)
    \/ gresp.op = "none" /\ \E data \in GroupData, pre_ok, post_ok \in BOOLEAN :
                                GroupUpdate(data, pre_ok, post_ok)
    \/ gresp.op = "none" /\ \E h \in HostIds : GroupAddHost(h)
    \/ gresp.op = "none" /\ \E g \in SubgroupIds : GroupAddSubgroup(g)
    \/ GroupReturn

SpecGroup == Init /\ [][GroupNext]_vars

\* The last request was an update that gave a children value other than the
\* group's.
ChildrenChangeAsked ==
    /\ gresp.op = "update"
    /\ gresp.data.children # Missing
    /\ BoolOf(gresp.data.children) # gresp.pre.children

\* C10: an update that gives a children value other than the group's fails
\* with Conflict and leaves children_allowed, the hosts and the subgroups as
\* they were; an update that leaves children out or repeats it is not
\* rejected on this ground.
C10_ChildrenChangeIsConflict ==
    /\ ChildrenChangeAsked =>
           /\ Category(gresp.error) = "Conflict"
           /\ group = gresp.pre
    /\ (gresp.op = "update" /\ ~ChildrenChangeAsked) =>
           gresp.error \notin {"ValidationError", "ValidationException"}

\* What the code does keep: the update is refused, with the framework's
\* ValidationError (status 400), and the group is as before; other updates
\* are not refused on this ground.
ChildrenChangeRefused ==
    /\ ChildrenChangeAsked =>
           /\ gresp.error = "ValidationError"
           /\ status_code(gresp.error) = 400
           /\ group = gresp.pre
    /\ (gresp.op = "update" /\ ~ChildrenChangeAsked) =>
           gresp.error \notin {"ValidationError", "ValidationException"}

(***************************************************************************)
(* A permissions call running statement by statement beside a reader.      *)
(***************************************************************************)
TxnNext ==
    \/ txn.pc = "idle" /\ \E actor \in PlainActors, method \in {"POST", "PUT"},
                       data \in TxnLists :
                        TxnBegin(actor, method, data)
    \/ txn.pc = "idle" /\ \E actor \in PlainActors, data \in ShortLists :
                        TxnBegin(actor, "DELETE", data)
    \/ TxnGuard
    \/ TxnDelete
    \/ TxnClear
    \/ TxnSet
    \/ TxnLoopDelete
    \/ \E ok \in BOOLEAN : TxnCreate(ok)
    \/ TxnLoopEnd
    \/ TxnUnwind
    \/ TxnExit
    \/ TxnReturn
    \/ TxnRead

SpecTxn == Init /\ [][TxnNext]_vars

\* The relation that the whole batch of the transaction makes of the one it
\* found.
WholeBatch == permissions_body(txn.pre, txn.method, txn.data).acl

\* C11: a PUT, POST or DELETE on permissions commits its whole batch or
\* nothing: the committed ACL is the one the call found while the call runs
\* and after a call that failed, and the result of the whole batch after a
\* call that succeeded; a reader on another connection reads the ACL as it
\* was before the call or as the whole batch makes it, never the cleared or
\* partly inserted relation in between.
C11_BatchesAreAtomic ==
    /\ TxnOpen => acl = txn.pre
    /\ txn.pc = "done" =>
           acl = IF txn.exc = "None" THEN WholeBatch ELSE txn.pre
    /\ (txn.pc = "done" /\ txn.exc = "None" /\ txn.method # "DELETE") =>
           txn.i = Len(txn.data) + 1
    /\ (seen.op = "read" /\ TxnOpen) => seen.acl \in {txn.pre, WholeBatch}
    /\ (seen.op = "read" /\ ~TxnOpen) => seen.acl = acl

\* A reader read the old ACL while a PUT had cleared it and inserted one
\* entry of two.
C11_Witness ==
    /\ seen.op = "read" /\ txn.pc = "loop" /\ txn.method = "PUT"
    /\ txn.i = 2 /\ Len(txn.data) = 2
    /\ txn.pre # EmptyAcl
    /\ txn.work \notin {txn.pre, WholeBatch}
    /\ seen.acl = txn.pre

(***************************************************************************)
(* Creates and updates with failing signal receivers: a team (no           *)
(* variables) and a group (with variables).                                *)
(***************************************************************************)
SignalsIdle == gresp.op = "none" /\ tresp.op = "none"

SignalsReturn ==
    /\ ~SignalsIdle
    /\ gresp' = NoGroupResp
    /\ tresp' = NoTeamResp
    /\ UNCHANGED <<group, team, aclVars, execVars, reprVars, ptaskVars,
                   txnVars>>

SignalsNext ==
    \/ SignalsIdle /\ \E user \in Users, data \in TeamData,
                         pre_ok, post_ok \in BOOLEAN :
                          TeamCreate(user, data, pre_ok, post_ok)
    \/ SignalsIdle /\ \E user \in Users, data \in TeamData,
                         pre_ok, post_ok \in BOOLEAN :
                          TeamUpdate(user, data, pre_ok, post_ok)
    \/ SignalsIdle /\ \E data \in GroupData, pre_ok, post_ok \in BOOLEAN :
                          GroupCreate(data, pre_ok, post_ok)
    \/ SignalsIdle /\ \E data \in GroupData, pre_ok, post_ok \in BOOLEAN :
                          GroupUpdate(data, pre_ok, post_ok)
    \/ SignalsReturn

SpecSignals == Init /\ [][SignalsNext]_vars

\* What the wrapped create or update of the last team request wrote.
TeamMutation ==
    IF tresp.op = "create" THEN team_create(tresp.data, tresp.user)
    ELSE team_update(tresp.pre, tresp.data)

\* What the wrapped create or update of the last group request wrote.
GroupMutation ==
    IF gresp.op = "create" THEN group_create(gresp.data)
    ELSE group_update(gresp.pre, gresp.data)

\* The wrapped function ran first, then the api_pre_save receivers and,
\* when these did not fail, the api_post_save receivers.
HooksInOrder(r) ==
    r.ran = IF r.pre_ok THEN <<"func", "api_pre_save", "api_post_save">>
            ELSE <<"func", "api_pre_save">>

\* The outcome of a request r that reached the wrapped function, on an
\* entity that is now stored as now and would be stored as mutation had
\* the function's writes been kept: a failing pre-save hook leaves the
\* entity as before the call, a failing post-save hook leaves the mutation
\* in place.
PreAbortsPostDoesNot(r, now, mutation) ==
    /\ HooksInOrder(r)
    /\ ~r.pre_ok => (r.error = "HookError" /\ now = r.pre)
    /\ (r.pre_ok /\ ~r.post_ok) => (r.error = "HookError" /\ now = mutation)
    /\ (r.pre_ok /\ r.post_ok) => (r.error = "None" /\ now = mutation)

\* C13: every create or update through a signal-wrapped serializer, with
\* variables (the group) or without (the team), runs the mutation, then the
\* pre-save hook, then the post-save hook; a failing pre-save hook leaves
\* the entity as before the call; a failing post-save hook leaves the
\* mutation committed.
C13_PreHookAbortsPostHookDoesNot ==
    /\ (tresp.op \in {"create", "update"} /\ tresp.ran # <<>>) =>
           PreAbortsPostDoesNot(tresp, team, TeamMutation)
    /\ (gresp.op \in {"create", "update"} /\ gresp.ran # <<>>) =>
           PreAbortsPostDoesNot(gresp, group, GroupMutation)

\* What the code does keep: the order of the mutation and the hooks, and
\* the abort by a failing pre-save hook, for both; the mutation outlives a
\* failing post-save hook on the team, and is rolled back with the
\* transaction of _do_with_vars on the group.
PostHookAbortsWithVariables ==
    /\ (tresp.op \in {"create", "update"} /\ tresp.ran # <<>>) =>
           PreAbortsPostDoesNot(tresp, team, TeamMutation)
    /\ (gresp.op \in {"create", "update"} /\ gresp.ran # <<>>) =>
           /\ HooksInOrder(gresp)
           /\ ~gresp.pre_ok => (gresp.error = "HookError" /\ group = gresp.pre)
           /\ (gresp.pre_ok /\ ~gresp.post_ok) =>
                  (gresp.error = "HookError" /\ group = gresp.pre)
           /\ (gresp.pre_ok /\ gresp.post_ok) =>
                  (gresp.error = "None" /\ group = GroupMutation)

====
